---- MODULE Spec2Model ----
(***************************************************************************)
(* State-machine models of the three tutorials held in                     *)
(* examples/vision/ipynb/oxford_pets_image_segmentation.ipynb:             *)
(*   - the Oxford Pets U-Net tutorial (data pipeline, get_model),          *)
(*   - the BASNet tutorial (load_paths, basnet_predict, basnet_rrm,        *)
(*     basnet, BasnetLoss),                                                *)
(*   - the handwriting recognition tutorial (words.txt filtering, dataset  *)
(*     split, vocabulary, distortion_free_resize, vectorize_label,         *)
(*     build_model, CTCLayer).                                             *)
(* Each tutorial part has its own specification (SpecUNet, SpecPets, ...); *)
(* the variables of the parts a specification does not run stay idle.      *)
(* Tensors are modelled by their shapes, datasets by sequences of element  *)
(* records, text by sequences of one-character strings.                    *)
(***************************************************************************)
EXTENDS Integers, Sequences, FiniteSets, TLC

VARIABLES
    pc,                         \* position in the cell / function being run
    \* ---- Oxford Pets: get_model ----
    img_size,                   \* get_model argument (height, width)
    num_classes,                \* get_model argument
    inputs,                     \* keras.Input shape
    x,                          \* shape of the running tensor x
    previous_block_activation,  \* shape of the residual set aside
    block_i,                    \* position in the current `for filters in` loop
    outputs,                    \* shape of the model output
    \* ---- BASNet: load_paths ----
    image_dir,                  \* glob(path/DUTS-TE-Image/*): a set of paths
    mask_dir,                   \* glob(path/DUTS-TE-Mask/*): a set of paths
    split_ratio,                \* load_paths argument, in percent
    train_paths,                \* (images[:len_], masks[:len_])
    val_paths,                  \* (images[len_:], masks[len_:])
    \* ---- Oxford Pets: data pipeline ----
    oxford_iiit_pet,            \* the TFDS dataset: [train |-> ..., test |-> ...]
    orig_train_ds,              \* tfds.load split "train+test[:80%]"
    orig_val_ds,                \* tfds.load split "test[80%:]"
    train_ds,                   \* orig_train_ds.map(rescale_images_and_correct_masks)
    val_ds,                     \* orig_val_ds.map(rescale_images_and_correct_masks)
    augmented_train_ds,         \* batches of (images, segmentation_masks)
    resized_val_ds,             \* batches of (images, segmentation_masks)
    \* ---- Handwriting: words.txt, split, labels ----
    words,                      \* open("data/words.txt").readlines()
    empty_images,               \* image names whose file has size 0
    words_list,
    train_samples,
    validation_samples,
    test_samples,
    train_img_paths,
    train_labels,
    validation_img_paths,
    validation_labels,
    test_img_paths,
    test_labels,
    train_labels_cleaned,
    characters,
    max_len,
    validation_labels_cleaned,
    test_labels_cleaned,
    \* ---- Handwriting: distortion_free_resize ----
    image,                      \* shape of the local `image` (height, width, channels)
    resize_img_size,            \* the img_size argument (w, h)
    pad_height,
    pad_width,
    paddings,                   \* the paddings argument of tf.pad
    \* ---- BASNet: basnet(input_shape, out_classes) ----
    input_shape,                \* basnet argument (height, width, channels)
    out_classes,                \* basnet argument
    predict_model,              \* basnet_predict's Model: [input, output]
    x_input,                    \* basnet_rrm's x_input = base_model.output[0]
    rrm_x,                      \* basnet_rrm's running tensor x
    encoder_blocks,             \* basnet_rrm's encoder_blocks
    stage,                      \* position in basnet_rrm's current stage loop
    refine_model,               \* basnet_rrm's Model: [input, output]
    basnet_model,               \* basnet's Model: [input, output]
    \* ---- BASNet: BasnetLoss.call(y_true, y_pred) ----
    y_true,                     \* batch of masks, each pixel |-> value
    y_pred,                     \* batch of masks, each pixel |-> value
    cross_entropy_loss,
    ssim_value,                 \* one value per sample
    ssim_loss,
    intersection,               \* calculate_iou local, one value per sample
    union,                      \* calculate_iou local, one value per sample
    iou_value,
    iou_loss,
    loss,                       \* the value call returns
    lib_calls,                  \* calls made into keras / tf.image, with arguments
    \* ---- Handwriting: vocabulary, dataset, build_model, CTCLayer.call ----
    vocabulary,                 \* char_to_num.get_vocabulary()
    hw_train_ds,                \* the handwriting train_ds: batches of labels
    dense2,                     \* output of the layer "dense2", per sample
    ctc_y_true,                 \* CTCLayer.call argument y_true
    ctc_y_pred,                 \* CTCLayer.call argument y_pred
    input_length,
    label_length,
    ctc_losses,                 \* the losses add_loss registered
    ctc_output                  \* the value CTCLayer.call returns

unetVars == <<img_size, num_classes, inputs, x, previous_block_activation,
              block_i, outputs>>

basnetVars == <<image_dir, mask_dir, split_ratio, train_paths, val_paths>>

petsVars == <<oxford_iiit_pet, orig_train_ds, orig_val_ds, train_ds, val_ds,
              augmented_train_ds, resized_val_ds>>

wordsVars == <<words, empty_images, words_list, train_samples,
               validation_samples, test_samples, train_img_paths, train_labels,
               validation_img_paths, validation_labels, test_img_paths,
               test_labels, train_labels_cleaned, characters, max_len,
               validation_labels_cleaned, test_labels_cleaned>>

resizeVars == <<image, resize_img_size, pad_height, pad_width, paddings>>

rrmVars == <<input_shape, out_classes, predict_model, x_input, rrm_x,
             encoder_blocks, stage, refine_model, basnet_model>>

lossVars == <<y_true, y_pred, cross_entropy_loss, ssim_value, ssim_loss,
              intersection, union, iou_value, iou_loss, loss, lib_calls>>

\* the parts added after the first five
ctcVars == <<vocabulary, hw_train_ds, dense2, ctc_y_true, ctc_y_pred,
             input_length, label_length, ctc_losses, ctc_output>>

laterVars == <<rrmVars, lossVars, ctcVars>>

vars == <<pc, unetVars, basnetVars, petsVars, wordsVars, resizeVars, laterVars>>

\* the variables each part leaves alone
nonUNetVars == <<basnetVars, petsVars, wordsVars, resizeVars, laterVars>>

nonBasnetVars == <<unetVars, petsVars, wordsVars, resizeVars, laterVars>>

nonPetsVars == <<unetVars, basnetVars, wordsVars, resizeVars, laterVars>>

nonWordsVars == <<unetVars, basnetVars, petsVars, resizeVars, laterVars>>

nonResizeVars == <<unetVars, basnetVars, petsVars, wordsVars, laterVars>>

firstVars == <<unetVars, basnetVars, petsVars, wordsVars, resizeVars>>

nonRrmVars == <<firstVars, lossVars, ctcVars>>

nonLossVars == <<firstVars, rrmVars, ctcVars>>

nonCtcVars == <<firstVars, rrmVars, lossVars>>

(***************************************************************************)
(* The state of a part that is not run                                     *)
(***************************************************************************)
NoShape == <<>>

UNetIdle ==
    /\ img_size = <<0, 0>>
    /\ num_classes = 0
    /\ inputs = NoShape
    /\ x = NoShape
    /\ previous_block_activation = NoShape
    /\ block_i = 0
    /\ outputs = NoShape

BasnetIdle ==
    /\ image_dir = {}
    /\ mask_dir = {}
    /\ split_ratio = 0
    /\ train_paths = <<>>
    /\ val_paths = <<>>

PetsIdle ==
    /\ oxford_iiit_pet = [train |-> <<>>, test |-> <<>>]
    /\ orig_train_ds = <<>>
    /\ orig_val_ds = <<>>
    /\ train_ds = <<>>
    /\ val_ds = <<>>
    /\ augmented_train_ds = <<>>
    /\ resized_val_ds = <<>>

\* the handwriting cells that have not run yet
SplitNotRun ==
    /\ train_samples = <<>>
    /\ validation_samples = <<>>
    /\ test_samples = <<>>

PathsNotRun ==
    /\ train_img_paths = <<>>
    /\ train_labels = <<>>
    /\ validation_img_paths = <<>>
    /\ validation_labels = <<>>
    /\ test_img_paths = <<>>
    /\ test_labels = <<>>

LabelsNotRun ==
    /\ train_labels_cleaned = <<>>
    /\ characters = <<>>
    /\ max_len = 0
    /\ validation_labels_cleaned = <<>>
    /\ test_labels_cleaned = <<>>

WordsIdle ==
    /\ words = <<>>
    /\ empty_images = {}
    /\ words_list = <<>>
    /\ SplitNotRun
    /\ PathsNotRun
    /\ LabelsNotRun

NoPadding == << <<0, 0>>, <<0, 0>>, <<0, 0>> >>

ResizeIdle ==
    /\ image = NoShape
    /\ resize_img_size = <<0, 0>>
    /\ pad_height = 0
    /\ pad_width = 0
    /\ paddings = NoPadding

\* a tensor: its shape and the layers it went through, in postfix order
NoTensor == [shape |-> NoShape, term |-> <<>>]

NoModel == [input |-> NoTensor, output |-> <<>>]

RrmIdle ==
    /\ input_shape = NoShape
    /\ out_classes = 0
    /\ predict_model = NoModel
    /\ x_input = NoTensor
    /\ rrm_x = NoTensor
    /\ encoder_blocks = <<>>
    /\ stage = 0
    /\ refine_model = NoModel
    /\ basnet_model = NoModel

\* a number not yet computed
NoValue == [n |-> <<>>, d |-> <<>>]

LossIdle ==
    /\ y_true = <<>>
    /\ y_pred = <<>>
    /\ cross_entropy_loss = NoValue
    /\ ssim_value = <<>>
    /\ ssim_loss = NoValue
    /\ intersection = <<>>
    /\ union = <<>>
    /\ iou_value = NoValue
    /\ iou_loss = NoValue
    /\ loss = NoValue
    /\ lib_calls = <<>>

CtcIdle ==
    /\ vocabulary = <<>>
    /\ hw_train_ds = <<>>
    /\ dense2 = NoTensor
    /\ ctc_y_true = <<>>
    /\ ctc_y_pred = NoTensor
    /\ input_length = <<>>
    /\ label_length = <<>>
    /\ ctc_losses = <<>>
    /\ ctc_output = NoTensor

LaterIdle == RrmIdle /\ LossIdle /\ CtcIdle

FirstIdle == UNetIdle /\ BasnetIdle /\ PetsIdle /\ WordsIdle /\ ResizeIdle

UNetOnly == BasnetIdle /\ PetsIdle /\ WordsIdle /\ ResizeIdle /\ LaterIdle

BasnetOnly == UNetIdle /\ PetsIdle /\ WordsIdle /\ ResizeIdle /\ LaterIdle

PetsOnly == UNetIdle /\ BasnetIdle /\ WordsIdle /\ ResizeIdle /\ LaterIdle

WordsOnly == UNetIdle /\ BasnetIdle /\ PetsIdle /\ ResizeIdle /\ LaterIdle

ResizeOnly == UNetIdle /\ BasnetIdle /\ PetsIdle /\ WordsIdle /\ LaterIdle

RrmOnly == FirstIdle /\ LossIdle /\ CtcIdle

LossOnly == FirstIdle /\ RrmIdle /\ CtcIdle

(***************************************************************************)
(* Generic helpers                                                         *)
(***************************************************************************)
Min(a, b) == IF a <= b THEN a ELSE b

Max(a, b) == IF a >= b THEN a ELSE b

\* ceil(a / b) for a >= 0, b > 0
CeilDiv(a, b) == (a + b - 1) \div b

\* Python s[:n] for n >= 0
Take(s, n) == SubSeq(s, 1, Min(n, Len(s)))

\* Python s[n:] for n >= 0
Drop(s, n) == SubSeq(s, Min(n, Len(s)) + 1, Len(s))

Range(s) == {s[i] : i \in 1..Len(s)}

(***************************************************************************)
(* Oxford Pets tutorial: configuration                                     *)
(***************************************************************************)
HEIGHT == 160

WIDTH == 160

NUM_CLASSES == 3

\* side lengths 1..MaxSide are tried for get_model besides HEIGHT, WIDTH
MaxSide == 33

Sides == (1..MaxSide) \cup {HEIGHT, WIDTH}

NumClassesSet == 1..NUM_CLASSES

(***************************************************************************)
(* Keras layers, as functions on (height, width, channels) shapes          *)
(***************************************************************************)
\* keras.Input(shape=img_size + (3,))
KerasInput(size) == <<size[1], size[2], 3>>

\* Conv2D(filters, kernel, strides=s, padding="same")
Conv2D(t, filters, strides) ==
    <<CeilDiv(t[1], strides), CeilDiv(t[2], strides), filters>>

\* SeparableConv2D(filters, 3, padding="same")
SeparableConv2D(t, filters) == <<t[1], t[2], filters>>

\* Conv2DTranspose(filters, 3, padding="same"), stride 1
Conv2DTranspose(t, filters) == <<t[1], t[2], filters>>

\* BatchNormalization and Activation keep the shape
BatchNormalization(t) == t

Activation(t) == t

\* MaxPooling2D(3, strides=2, padding="same")
MaxPooling2D(t, strides) == <<CeilDiv(t[1], strides), CeilDiv(t[2], strides), t[3]>>

\* an UpSampling2D that does not scale
UpSampling2DNoop(t, size) == t

\* UpSampling2D(size)
UpSampling2D(t, size) == <<t[1] * size, t[2] * size, t[3]>>

\* keras.layers.add([a, b]): defined only for equal shapes
ShapeMismatch == <<0, 0, 0>>

Add(a, b) == IF a = b THEN a ELSE ShapeMismatch

DownFilters == <<64, 128, 256>>

UpFilters == <<256, 128, 64, 32>>

\* body of `for filters in [64, 128, 256]`, applied to (x, previous)
DownBlockBody(t, prev, filters) ==
    LET a == BatchNormalization(SeparableConv2D(Activation(t), filters))
        b == BatchNormalization(SeparableConv2D(Activation(a), filters))
        c == MaxPooling2D(b, 2)
        residual == Conv2D(prev, filters, 2)
    IN  Add(c, residual)

\* body of `for filters in [256, 128, 64, 32]`, applied to (x, previous)
UpBlockBody(t, prev, filters) ==
    LET a == BatchNormalization(Conv2DTranspose(Activation(t), filters))
        b == BatchNormalization(Conv2DTranspose(Activation(a), filters))
        c == UpSampling2D(b, 2)
        residual == Conv2D(UpSampling2D(prev, 2), filters, 1)
    IN  Add(c, residual)

(***************************************************************************)
(* get_model(img_size, num_classes), one action per block                  *)
(***************************************************************************)
InitUNet ==
    /\ pc = "input"
    /\ UNetOnly
    /\ img_size \in Sides \X Sides
    /\ num_classes \in NumClassesSet
    /\ inputs = NoShape
    /\ x = NoShape
    /\ previous_block_activation = NoShape
    /\ block_i = 0
    /\ outputs = NoShape

ModelInput ==
    /\ pc = "input"
    /\ inputs' = KerasInput(img_size)
    /\ pc' = "entry"
    /\ UNCHANGED <<img_size, num_classes, x, previous_block_activation,
                   block_i, outputs>>
    /\ UNCHANGED nonUNetVars

EntryBlock ==
    /\ pc = "entry"
    /\ x' = Activation(BatchNormalization(Conv2D(inputs, 32, 2)))
    /\ previous_block_activation' = x'
    /\ block_i' = 1
    /\ pc' = "down"
    /\ UNCHANGED <<img_size, num_classes, inputs, outputs>>
    /\ UNCHANGED nonUNetVars

DownBlock ==
    /\ pc = "down"
    /\ x' = DownBlockBody(x, previous_block_activation, DownFilters[block_i])
    /\ previous_block_activation' = x'
    /\ IF block_i < Len(DownFilters)
         THEN block_i' = block_i + 1 /\ pc' = "down"
         ELSE block_i' = 1 /\ pc' = "up"
    /\ UNCHANGED <<img_size, num_classes, inputs, outputs>>
    /\ UNCHANGED nonUNetVars

UpBlock ==
    /\ pc = "up"
    /\ x' = UpBlockBody(x, previous_block_activation, UpFilters[block_i])
    /\ previous_block_activation' = x'
    /\ IF block_i < Len(UpFilters)
         THEN block_i' = block_i + 1 /\ pc' = "up"
         ELSE block_i' = 0 /\ pc' = "head"
    /\ UNCHANGED <<img_size, num_classes, inputs, outputs>>
    /\ UNCHANGED nonUNetVars

\* Conv2D(num_classes, 3, activation="softmax", padding="same")
ClassificationLayer ==
    /\ pc = "head"
    /\ outputs' = Conv2D(x, num_classes, 1)
    /\ pc' = "model_done"
    /\ UNCHANGED <<img_size, num_classes, inputs, x, previous_block_activation,
                   block_i>>
    /\ UNCHANGED nonUNetVars

NextUNet ==
    \/ ModelInput
    \/ EntryBlock
    \/ DownBlock
    \/ UpBlock
    \/ ClassificationLayer

SpecUNet == InitUNet /\ [][NextUNet]_vars

(***************************************************************************)
(* C7 (as stated): for every height and width in img_size the output of    *)
(* get_model has shape (height, width, num_classes).                       *)
(***************************************************************************)
C7_PerPixelEverySize ==
    pc = "model_done" => outputs = <<img_size[1], img_size[2], num_classes>>

(***************************************************************************)
(* C7 (amended): for every height and width that are multiples of 16, the  *)
(* entry block halves the input, the three downsampling blocks bring it to *)
(* 1/16 of the input, and after the four x2 upsampling blocks the output   *)
(* has shape (height, width, num_classes): one distribution per pixel.     *)
(***************************************************************************)
C7_PerPixelMultipleOf16 ==
    (img_size[1] % 16 = 0 /\ img_size[2] % 16 = 0) =>
        /\ (pc = "down" /\ block_i = 1) =>
              x = <<img_size[1] \div 2, img_size[2] \div 2, 32>>
        /\ (pc = "up" /\ block_i = 1) =>
              x = <<img_size[1] \div 16, img_size[2] \div 16, 256>>
        /\ pc = "head" => x = <<img_size[1], img_size[2], 32>>
        /\ pc = "model_done" =>
              outputs = <<img_size[1], img_size[2], num_classes>>

C7_Witness ==
    /\ pc = "model_done"
    /\ img_size = <<HEIGHT, WIDTH>>
    /\ num_classes = NUM_CLASSES
    /\ outputs = <<HEIGHT, WIDTH, NUM_CLASSES>>

(***************************************************************************)
(* BASNet tutorial: load_paths(path, split_ratio)                          *)
(***************************************************************************)
\* TRAIN_SPLIT_RATIO = 0.90, kept in percent
TRAIN_SPLIT_RATIO == 90

\* the [:140] of load_paths
PathLimit == 140

\* directories hold 0..MaxDirSmall files, or PathLimit-1..PathLimit+MaxDirOver
MaxDirSmall == 3

MaxDirOver == 2

DirSizes == (0..MaxDirSmall) \cup ((PathLimit - 1)..(PathLimit + MaxDirOver))

RatioPercents == {0, 50, TRAIN_SPLIT_RATIO, 100}

ImagePath(n) == [dir |-> "DUTS-TE-Image", name |-> n]

MaskPath(n) == [dir |-> "DUTS-TE-Mask", name |-> n]

\* sorted(glob(...)): the paths of a directory in ascending name order
Sorted(S) ==
    LET ranked == {<<Cardinality({b \in S : b.name < a.name}) + 1, a>> : a \in S}
    IN  [k \in 1..Cardinality(S) |-> (CHOOSE p \in ranked : p[1] = k)[2]]

\* int(n * split_ratio) for split_ratio = percent / 100
IntOfProduct(n, percent) == (n * percent) \div 100

\* a load_paths slicing the validation masks at len_ + 1
LoadPathsMasksOffByOne(imgs, msks, ratio) ==
    LET images == Take(Sorted(imgs), PathLimit)
        masks == Take(Sorted(msks), PathLimit)
        len_ == IntOfProduct(Len(images), ratio)
    IN  << <<Take(images, len_), Take(masks, len_)>>,
           <<Drop(images, len_), Drop(masks, len_ + 1)>> >>

\* load_paths: returns <<(train images, train masks), (val images, val masks)>>
LoadPaths(imgs, msks, ratio) ==
    LET images == Take(Sorted(imgs), PathLimit)
        masks == Take(Sorted(msks), PathLimit)
        len_ == IntOfProduct(Len(images), ratio)
    IN  << <<Take(images, len_), Take(masks, len_)>>,
           <<Drop(images, len_), Drop(masks, len_)>> >>

InitBasnet ==
    /\ pc = "load_paths"
    /\ BasnetOnly
    /\ \E n \in DirSizes : image_dir = {ImagePath(k) : k \in 1..n}
    /\ \E n \in DirSizes : mask_dir = {MaskPath(k) : k \in 1..n}
    /\ split_ratio \in RatioPercents
    /\ train_paths = <<>>
    /\ val_paths = <<>>

\* train_paths, val_paths = load_paths(DATA_DIR, TRAIN_SPLIT_RATIO)
CallLoadPaths ==
    /\ pc = "load_paths"
    /\ LET r == LoadPaths(image_dir, mask_dir, split_ratio)
       IN  train_paths' = r[1] /\ val_paths' = r[2]
    /\ pc' = "paths_done"
    /\ UNCHANGED <<image_dir, mask_dir, split_ratio>>
    /\ UNCHANGED nonBasnetVars

NextBasnet == CallLoadPaths

SpecBasnet == InitBasnet /\ [][NextBasnet]_vars

(***************************************************************************)
(* C10: load_paths uses at most the first 140 sorted image paths and the   *)
(* first 140 sorted mask paths, splits both at the single index            *)
(* len_ = int(len(images) * split_ratio); the train and validation parts   *)
(* are disjoint, together cover all selected paths in order, and image k   *)
(* stays paired with mask k in both parts (140 paths, ratio 0.90: 126      *)
(* train pairs and 14 validation pairs).                                   *)
(***************************************************************************)
C10_LoadPathsSplit ==
    pc = "paths_done" =>
        LET nI == Min(Cardinality(image_dir), PathLimit)
            nM == Min(Cardinality(mask_dir), PathLimit)
            len_ == (nI * split_ratio) \div 100
            ti == train_paths[1]
            tm == train_paths[2]
            vi == val_paths[1]
            vm == val_paths[2]
        IN  /\ Len(ti) = len_
            /\ Len(tm) = Min(len_, nM)
            /\ Len(ti) + Len(vi) = nI
            /\ Len(tm) + Len(vm) = nM
            /\ \A k \in 1..Len(ti) : ti[k] = ImagePath(k)
            /\ \A k \in 1..Len(tm) : tm[k] = MaskPath(k)
            /\ \A j \in 1..Len(vi) : vi[j] = ImagePath(len_ + j)
            /\ \A j \in 1..Len(vm) : vm[j] = MaskPath(len_ + j)
            /\ Range(ti) \cap Range(vi) = {}
            /\ Range(tm) \cap Range(vm) = {}
            /\ (nI = 140 /\ nM = 140 /\ split_ratio = 90) =>
                  /\ Len(ti) = 126 /\ Len(tm) = 126
                  /\ Len(vi) = 14 /\ Len(vm) = 14

C10_Witness ==
    /\ pc = "paths_done"
    /\ Cardinality(image_dir) > PathLimit
    /\ Cardinality(mask_dir) > PathLimit
    /\ split_ratio = TRAIN_SPLIT_RATIO
    /\ Len(train_paths[1]) = 126
    /\ Len(val_paths[2]) = 14
    /\ val_paths[1][14] = ImagePath(PathLimit)

(***************************************************************************)
(* Rounding, and the outcomes of a random shuffle                          *)
(***************************************************************************)
\* round(num / den) to the nearest integer, ties to the even one (Python's
\* round and tf.round), for num >= 0, den > 0
RoundHalfEven(num, den) ==
    LET q == num \div den
        r == num % den
    IN  IF 2 * r < den THEN q
        ELSE IF 2 * r > den THEN q + 1
        ELSE IF q % 2 = 0 THEN q ELSE q + 1

\* every order of up to MaxPermLen elements is tried; of longer sequences the
\* rotations and the reversal
MaxPermLen == 3

RECURSIVE Perms(_)
Perms(S) ==
    IF S = {} THEN {<<>>}
    ELSE UNION {{<<e>> \o q : q \in Perms(S \ {e})} : e \in S}

Orders(n) ==
    IF n <= MaxPermLen THEN Perms(1..n)
    ELSE {[j \in 1..n |-> ((j + k - 1) % n) + 1] : k \in 0..(n - 1)}
            \cup {[j \in 1..n |-> n + 1 - j]}

\* the orders a shuffle with a buffer of buffer_size elements can produce: the
\* j-th output is drawn among the first j + buffer_size - 1 inputs
ShuffleOrders(n, buffer_size) ==
    {o \in Orders(n) : \A j \in 1..n : o[j] <= j + buffer_size - 1}

(***************************************************************************)
(* Oxford Pets tutorial: the TFDS dataset and tfds.load                    *)
(***************************************************************************)
BATCH_SIZE == 128

\* the 80 of split=["train+test[:80%]", "test[80%:]"]
SplitPercent == 80

\* the TFDS train split holds 0..MaxTrain examples, the test split 0..MaxTest
MaxTrain == 5

MaxTest == 5

\* a tensor: its shape, dtype, one representative pixel as the fraction
\* <<numerator, denominator>>, the example it comes from and the pipeline
\* stages it has passed through
Tensor(file, shape, dtype, value) ==
    [file |-> file, shape |-> shape, dtype |-> dtype, value |-> value,
     ops |-> <<>>]

\* example k of oxford_iiit_pet; trimap masks hold the classes 1..NUM_CLASSES
Example(k, base) ==
    [file_name |-> k,
     label |-> k % 2,
     image |-> Tensor(k, <<100 + k, 200 - k, 3>>, "uint8",
                      <<(85 * (k + base)) % 256, 1>>),
     segmentation_mask |-> Tensor(k, <<100 + k, 200 - k, 1>>, "uint8",
                                  <<1 + ((k + base) % NUM_CLASSES), 1>>)]

\* index of a split's [:p%] / [p%:] boundary (TFDS rounds to the closest)
PercentBoundary(percent, n) == RoundHalfEven(percent * n, 100)

\* tfds.load(split=["train+test[:80%]", "test[80%:]"]): "+" adds the whole
\* train split to the slice test[:80%]
TfdsLoad(ds) ==
    LET b == PercentBoundary(SplitPercent, Len(ds.test))
    IN  <<ds.train \o Take(ds.test, b), Drop(ds.test, b)>>

(***************************************************************************)
(* Oxford Pets tutorial: preprocessing and augmentation functions          *)
(***************************************************************************)
\* tf.cast(image, dtype=tf.float32) / 255.0
CastAndRescale(t) ==
    [t EXCEPT !.dtype = "float32", !.value = <<t.value[1], t.value[2] * 255>>]

\* masks left 1-based
MaskUnchanged(t) == t

\* segmentation_mask - 1, in the mask's dtype uint8
MaskMinusOne(t) == [t EXCEPT !.value = <<(t.value[1] - 1) % 256, t.value[2]>>]

rescale_images_and_correct_masks(e) ==
    [images |-> CastAndRescale(e.image),
     segmentation_masks |-> MaskMinusOne(e.segmentation_mask)]

Logged(t, name) == [t EXCEPT !.ops = Append(t.ops, name)]

LoggedAll(ts, name) == [i \in 1..Len(ts) |-> Logged(ts[i], name)]

\* a KerasCV layer applied to an {images, segmentation_masks} dictionary
\* that leaves shapes alone
ThroughLayer(e, name) ==
    [images |-> Logged(e.images, name),
     segmentation_masks |-> Logged(e.segmentation_masks, name)]

\* resize_fn = keras_cv.layers.Resizing(HEIGHT, WIDTH)
resize_fn(e) ==
    LET to(t) == [t EXCEPT !.shape = <<HEIGHT, WIDTH, t.shape[3]>>]
    IN  ThroughLayer([images |-> to(e.images),
                      segmentation_masks |-> to(e.segmentation_masks)],
                     "Resizing")

RandomFlip(e) == ThroughLayer(e, "RandomFlip")

RandomRotation(e) == ThroughLayer(e, "RandomRotation")

RandAugment(e) == ThroughLayer(e, "RandAugment")

\* augment_fn = keras.Sequential([resize_fn, RandomFlip, RandomRotation,
\*                                RandAugment])
augment_fn(e) == RandAugment(RandomRotation(RandomFlip(resize_fn(e))))

\* unpackage_inputs, on one batch
unpackage_inputs(b) ==
    <<LoggedAll(b.images, "unpackage_inputs"),
      LoggedAll(b.segmentation_masks, "unpackage_inputs")>>

(***************************************************************************)
(* tf.data.Dataset methods                                                 *)
(***************************************************************************)
\* ds.map(f), for each f the tutorial maps
MapRescale(ds) == [i \in 1..Len(ds) |-> rescale_images_and_correct_masks(ds[i])]

MapResize(ds) == [i \in 1..Len(ds) |-> resize_fn(ds[i])]

MapAugment(ds) == [i \in 1..Len(ds) |-> augment_fn(ds[i])]

MapUnpackage(ds) == [i \in 1..Len(ds) |-> unpackage_inputs(ds[i])]

\* ds.shuffle(buffer_size): the set of datasets it can yield
DsShuffle(ds, buffer_size) ==
    {[j \in 1..Len(ds) |-> ThroughLayer(ds[o[j]], "shuffle")] :
        o \in ShuffleOrders(Len(ds), buffer_size)}

\* ds.batch(n): consecutive groups of n elements, the last one maybe shorter
DsBatch(ds, n) ==
    [b \in 1..CeilDiv(Len(ds), n) |->
        LET group == SubSeq(ds, (b - 1) * n + 1, Min(b * n, Len(ds)))
        IN  [images |->
                [i \in 1..Len(group) |-> Logged(group[i].images, "batch")],
             segmentation_masks |->
                [i \in 1..Len(group) |->
                    Logged(group[i].segmentation_masks, "batch")]]]

\* a validation pipeline mapping augment_fn instead of resize_fn
ValPipelineAugmented(ds) ==
    MapUnpackage(DsBatch(MapAugment(ds), BATCH_SIZE))

\* val_ds.map(resize_fn).batch(BATCH_SIZE).map(unpackage_inputs).prefetch()
ValPipeline(ds) ==
    MapUnpackage(DsBatch(MapResize(ds), BATCH_SIZE))

\* train_ds.shuffle(BATCH_SIZE * 2).map(augment_fn).batch(BATCH_SIZE)
\*         .map(unpackage_inputs).prefetch(): the datasets it can yield
TrainPipeline(ds) ==
    {MapUnpackage(DsBatch(MapAugment(shuffled), BATCH_SIZE)) :
        shuffled \in DsShuffle(ds, BATCH_SIZE * 2)}

(***************************************************************************)
(* Oxford Pets tutorial: the cells, one action each                        *)
(***************************************************************************)
InitPets ==
    /\ pc = "load"
    /\ PetsOnly
    /\ \E nTrain \in 0..MaxTrain, nTest \in 0..MaxTest, base \in 0..(NUM_CLASSES - 1) :
          oxford_iiit_pet =
              [train |-> [k \in 1..nTrain |-> Example(k, base)],
               test |-> [k \in 1..nTest |-> Example(nTrain + k, base)]]
    /\ orig_train_ds = <<>>
    /\ orig_val_ds = <<>>
    /\ train_ds = <<>>
    /\ val_ds = <<>>
    /\ augmented_train_ds = <<>>
    /\ resized_val_ds = <<>>

DownloadData ==
    /\ pc = "load"
    /\ LET r == TfdsLoad(oxford_iiit_pet)
       IN  orig_train_ds' = r[1] /\ orig_val_ds' = r[2]
    /\ pc' = "preprocess"
    /\ UNCHANGED <<oxford_iiit_pet, train_ds, val_ds, augmented_train_ds,
                   resized_val_ds>>
    /\ UNCHANGED nonPetsVars

PreprocessData ==
    /\ pc = "preprocess"
    /\ train_ds' = MapRescale(orig_train_ds)
    /\ val_ds' = MapRescale(orig_val_ds)
    /\ pc' = "augment_train"
    /\ UNCHANGED <<oxford_iiit_pet, orig_train_ds, orig_val_ds,
                   augmented_train_ds, resized_val_ds>>
    /\ UNCHANGED nonPetsVars

CreateAugmentedTrainDs ==
    /\ pc = "augment_train"
    /\ augmented_train_ds' \in TrainPipeline(train_ds)
    /\ pc' = "resize_val"
    /\ UNCHANGED <<oxford_iiit_pet, orig_train_ds, orig_val_ds, train_ds, val_ds,
                   resized_val_ds>>
    /\ UNCHANGED nonPetsVars

CreateResizedValDs ==
    /\ pc = "resize_val"
    /\ resized_val_ds' = ValPipeline(val_ds)
    /\ pc' = "pets_done"
    /\ UNCHANGED <<oxford_iiit_pet, orig_train_ds, orig_val_ds, train_ds, val_ds,
                   augmented_train_ds>>
    /\ UNCHANGED nonPetsVars

NextPets ==
    \/ DownloadData
    \/ PreprocessData
    \/ CreateAugmentedTrainDs
    \/ CreateResizedValDs

SpecPets == InitPets /\ [][NextPets]_vars

\* all the tensors of a batched, unpackaged dataset
BatchedTensors(ds) ==
    UNION {Range(ds[b][1]) \cup Range(ds[b][2]) : b \in 1..Len(ds)}

Files(ds) == {ds[i].file_name : i \in 1..Len(ds)}

(***************************************************************************)
(* C3: the training and test data are combined and the combined data is    *)
(* split 80% / 20%: orig_train_ds holds 80% of all combined examples and   *)
(* orig_val_ds the other 20%, the two being disjoint and together covering *)
(* every example.                                                          *)
(***************************************************************************)
C3_EightyPercentOfCombined ==
    pc \in {"preprocess", "augment_train", "resize_val", "pets_done"} =>
        LET all == oxford_iiit_pet.train \o oxford_iiit_pet.test
            b == RoundHalfEven(80 * Len(all), 100)
        IN  /\ Len(orig_train_ds) = b
            /\ Len(orig_val_ds) = Len(all) - b
            /\ Files(orig_train_ds) \cap Files(orig_val_ds) = {}
            /\ Files(orig_train_ds) \cup Files(orig_val_ds) = Files(all)

(***************************************************************************)
(* C8: rescale_images_and_correct_masks maps every input dictionary to a   *)
(* dictionary with exactly the keys images and segmentation_masks, every   *)
(* mask index shifted from 1-based to 0-based (m -> m - 1), so masks with  *)
(* values in 1..NUM_CLASSES become values in 0..NUM_CLASSES-1; and         *)
(* unpackage_inputs returns the pair (images, segmentation_masks) in that  *)
(* order.                                                                  *)
(***************************************************************************)
C8_Corrected(orig, ds) ==
    /\ Len(ds) = Len(orig)
    /\ \A k \in 1..Len(ds) :
          /\ DOMAIN ds[k] = {"images", "segmentation_masks"}
          /\ ds[k].images.file = orig[k].file_name
          /\ ds[k].images.shape = orig[k].image.shape
          /\ ds[k].segmentation_masks.file = orig[k].file_name
          /\ orig[k].segmentation_mask.value[1] \in 1..NUM_CLASSES
          /\ ds[k].segmentation_masks.value[1] =
                orig[k].segmentation_mask.value[1] - 1
          /\ ds[k].segmentation_masks.value[1] \in 0..(NUM_CLASSES - 1)

C8_Unpackaged(ds) ==
    \A b \in 1..Len(ds) :
        /\ Len(ds[b]) = 2
        /\ Len(ds[b][1]) = Len(ds[b][2])
        /\ \A i \in 1..Len(ds[b][1]) :
              /\ ds[b][1][i].shape[3] = 3
              /\ ds[b][1][i].dtype = "float32"
              /\ ds[b][2][i].shape[3] = 1
              /\ ds[b][2][i].value[1] \in 0..(NUM_CLASSES - 1)
              /\ ds[b][1][i].file = ds[b][2][i].file

C8_MasksZeroBased ==
    /\ pc \in {"augment_train", "resize_val", "pets_done"} =>
          C8_Corrected(orig_train_ds, train_ds) /\ C8_Corrected(orig_val_ds, val_ds)
    /\ pc \in {"resize_val", "pets_done"} => C8_Unpackaged(augmented_train_ds)
    /\ pc = "pets_done" => C8_Unpackaged(resized_val_ds)

C8_Witness ==
    /\ pc = "pets_done"
    /\ Len(train_ds) > MaxPermLen
    /\ Len(val_ds) > 0
    /\ {train_ds[k].segmentation_masks.value[1] : k \in 1..Len(train_ds)}
          = 0..(NUM_CLASSES - 1)
    /\ Len(augmented_train_ds) = 1
    /\ Len(resized_val_ds) = 1

(***************************************************************************)
(* C9: only the resizing operation is applied to the validation dataset -  *)
(* no validation element ever passes through shuffle, RandomFlip,          *)
(* RandomRotation or RandAugment - while every training element passes, in *)
(* this order, through shuffle, resize, RandomFlip, RandomRotation,        *)
(* RandAugment, then batching, then unpackage_inputs.                      *)
(***************************************************************************)
C9_ValidationOnlyResized ==
    /\ pc \in {"resize_val", "pets_done"} =>
          /\ {t.file : t \in BatchedTensors(augmented_train_ds)} = Files(orig_train_ds)
          /\ \A t \in BatchedTensors(augmented_train_ds) :
                t.ops = <<"shuffle", "Resizing", "RandomFlip", "RandomRotation",
                          "RandAugment", "batch", "unpackage_inputs">>
    /\ pc = "pets_done" =>
          /\ {t.file : t \in BatchedTensors(resized_val_ds)} = Files(orig_val_ds)
          /\ \A t \in BatchedTensors(resized_val_ds) :
                /\ t.ops = <<"Resizing", "batch", "unpackage_inputs">>
                /\ t.shape[1] = HEIGHT /\ t.shape[2] = WIDTH
                /\ Range(t.ops) \cap {"shuffle", "RandomFlip", "RandomRotation",
                                      "RandAugment"} = {}

C9_Witness ==
    /\ pc = "pets_done"
    /\ Len(val_ds) >= 1
    /\ Len(train_ds) >= 2
    /\ BatchedTensors(resized_val_ds) # {}
    /\ BatchedTensors(augmented_train_ds) # {}
    /\ augmented_train_ds[1][1][1].file # train_ds[1].images.file

(***************************************************************************)
(* Handwriting tutorial: text as sequences of one-character strings        *)
(***************************************************************************)
\* the characters of the model, in code point order
Alphabet ==
    <<"\t", "\n", " ", "#", "-", ".", "0", "1", "2", "3", "4", "5", "6", "7",
      "8", "9", "A", "a", "c", "d", "e", "g", "k", "o", "p", "r", "t", "w">>

\* position of a character in the code point order
Ord(c) == CHOOSE i \in 1..Len(Alphabet) : Alphabet[i] = c

Whitespace == {" ", "\t", "\n"}

\* index of the first sep in s, 0 when there is none
Find(s, sep) ==
    IF \E i \in 1..Len(s) : s[i] = sep
    THEN CHOOSE i \in 1..Len(s) : s[i] = sep /\ \A j \in 1..(i - 1) : s[j] # sep
    ELSE 0

\* str.split(sep) for a one-character sep: always at least one field
RECURSIVE Split(_, _)
Split(s, sep) ==
    LET i == Find(s, sep)
    IN  IF i = 0 THEN <<s>>
        ELSE <<SubSeq(s, 1, i - 1)>> \o Split(SubSeq(s, i + 1, Len(s)), sep)

\* str.strip(): leading and trailing whitespace removed
RECURSIVE Strip(_)
Strip(s) ==
    IF s = <<>> THEN s
    ELSE IF s[1] \in Whitespace THEN Strip(Tail(s))
    ELSE IF s[Len(s)] \in Whitespace THEN Strip(SubSeq(s, 1, Len(s) - 1))
    ELSE s

\* Python's negative index s[-1]
Last(s) == s[Len(s)]

(***************************************************************************)
(* Handwriting tutorial: the words.txt files tried                         *)
(***************************************************************************)
\* every file of up to MaxShortFile lines of any kind is tried, and the files
\* of MaxShortFile+1..MaxLines lines made of a header line and word entries
MaxShortFile == 3

MaxLines == 25

\* the images of the first MaxEmptyImages entries may be empty files
MaxEmptyImages == 2

Digits == <<"0", "1", "2", "3", "4", "5", "6", "7", "8", "9">>

\* the image name of entry i, in the part1-part2 form of IAM word ids
ImageName(i) == <<"w", "-", Digits[(i \div 10) + 1], Digits[(i % 10) + 1]>>

Labels ==
    << <<"c", "a", "t">>, <<"d", "o", "g">>, <<"A">>, <<"t", "o">>, <<"#">>,
       <<"e", "r", "r">>, <<".">> >>

LabelOf(i) == Labels[((i - 1) % Len(Labels)) + 1]

\* "<image name> ok <label>\n"
OkLine(i) == ImageName(i) \o <<" ", "o", "k", " ">> \o LabelOf(i) \o <<"\n">>

\* "<image name> err <label>\n"
ErrLine(i) == ImageName(i) \o <<" ", "e", "r", "r", " ">> \o LabelOf(i) \o <<"\n">>

\* metadata lines: "#--- <label>\n" and "# ok\n"
CommentLine(i) == <<"#", "-", "-", "-", " ">> \o LabelOf(i) \o <<"\n">>

CommentOkLine(i) == <<"#", " ", "o", "k", "\n">>

LineKinds == {"ok", "err", "comment", "comment_ok"}

Line(kind, i) ==
    CASE kind = "ok" -> OkLine(i)
      [] kind = "err" -> ErrLine(i)
      [] kind = "comment" -> CommentLine(i)
      [] kind = "comment_ok" -> CommentOkLine(i)

ShortFiles ==
    UNION {{[i \in 1..n |-> Line(kinds[i], i)] : kinds \in [1..n -> LineKinds]} :
              n \in 0..MaxShortFile}

\* a header line, then entries of which every eighth is an errored one
LongFile(n) ==
    [i \in 1..n |->
        IF i = 1 THEN CommentLine(i)
        ELSE IF i % 8 = 0 THEN ErrLine(i)
        ELSE OkLine(i)]

LongFiles == {LongFile(n) : n \in (MaxShortFile + 1)..MaxLines}

(***************************************************************************)
(* Handwriting tutorial: the cells' computations                           *)
(***************************************************************************)
\* a loop body without the "#" test
KeepLineSecondFieldOnly(line) == Split(line, " ")[2] # <<"e", "r", "r">>

\* the loop body of the words_list cell: is the line appended?
KeepLine(line) ==
    IF line[1] = "#" THEN FALSE
    ELSE Split(line, " ")[2] # <<"e", "r", "r">>

\* for line in words: ...
RECURSIVE FilterWords(_)
FilterWords(lines) ==
    IF lines = <<>> THEN <<>>
    ELSE IF KeepLine(Head(lines))
         THEN <<Head(lines)>> \o FilterWords(Tail(lines))
         ELSE FilterWords(Tail(lines))

\* np.random.shuffle(words_list): the lists it can leave
NpRandomShuffle(list) ==
    {[j \in 1..Len(list) |-> list[o[j]]] : o \in ShuffleOrders(Len(list), Len(list))}

\* a split whose final test slice starts one entry late
SplitSamplesTestOffByOne(list) ==
    LET split_idx == IntOfProduct(Len(list), 90)
        test0 == Drop(list, split_idx)
        val_split_idx == IntOfProduct(Len(test0), 50)
    IN  <<Take(list, split_idx), Take(test0, val_split_idx),
          Drop(test0, val_split_idx + 1)>>

\* a split at 0.8 instead of 0.9
SplitSamplesEightyTwenty(list) ==
    LET split_idx == IntOfProduct(Len(list), 80)
        test0 == Drop(list, split_idx)
        val_split_idx == IntOfProduct(Len(test0), 50)
    IN  <<Take(list, split_idx), Take(test0, val_split_idx),
          Drop(test0, val_split_idx)>>

\* the dataset splitting cell: <<train_samples, validation_samples, test_samples>>
SplitSamples(list) ==
    LET split_idx == IntOfProduct(Len(list), 90)
        test0 == Drop(list, split_idx)
        val_split_idx == IntOfProduct(Len(test0), 50)
    IN  <<Take(list, split_idx), Take(test0, val_split_idx),
          Drop(test0, val_split_idx)>>

\* os.path.join(base_image_path, partI, partI + "-" + partII, image_name + ".png")
ImgPath(image_name) ==
    LET parts == Split(image_name, "-")
    IN  << <<"d", "a", "t", "a">>, <<"w", "o", "r", "d", "s">>, parts[1],
           parts[1] \o <<"-">> \o parts[2],
           image_name \o <<".", "p", "n", "g">> >>

\* get_image_paths_and_labels(samples), with the set of empty image files:
\* <<paths, corrected_samples>>
RECURSIVE get_image_paths_and_labels(_, _)
get_image_paths_and_labels(samples, empty) ==
    IF samples = <<>> THEN << <<>>, <<>> >>
    ELSE LET file_line == Head(samples)
             line_split == Split(Strip(file_line), " ")
             image_name == line_split[1]
             rest == get_image_paths_and_labels(Tail(samples), empty)
         IN  IF image_name \notin empty
             THEN << <<ImgPath(image_name)>> \o rest[1],
                     <<Split(file_line, "\n")[1]>> \o rest[2] >>
             ELSE rest

\* label.split(" ")[-1].strip()
CleanLabel(label) == Strip(Last(Split(label, " ")))

\* clean_labels(labels)
clean_labels(labels) == [i \in 1..Len(labels) |-> CleanLabel(labels[i])]

\* the characters in descending order
UnsortedChars(chars) ==
    LET ranked == {<<Cardinality({b \in chars : Ord(b) > Ord(a)}) + 1, a>> :
                      a \in chars}
    IN  [k \in 1..Cardinality(chars) |-> (CHOOSE q \in ranked : q[1] = k)[2]]

\* sorted(list(chars)): ascending code points
SortedChars(chars) ==
    LET ranked == {<<Cardinality({b \in chars : Ord(b) < Ord(a)}) + 1, a>> :
                      a \in chars}
    IN  [k \in 1..Cardinality(chars) |-> (CHOOSE q \in ranked : q[1] = k)[2]]

\* the label preparation loop, from state <<cleaned, characters, max_len>>
RECURSIVE PrepareLabels(_, _)
PrepareLabels(labels, acc) ==
    IF labels = <<>> THEN acc
    ELSE LET label == CleanLabel(Head(labels))
         IN  PrepareLabels(Tail(labels),
                 <<Append(acc[1], label),
                   acc[2] \cup Range(label),
                   Max(acc[3], Len(label))>>)

(***************************************************************************)
(* Handwriting tutorial: the cells, one action each                        *)
(***************************************************************************)
InitWords ==
    /\ pc = "readlines"
    /\ WordsOnly
    /\ words \in ShortFiles \cup LongFiles
    /\ empty_images \in SUBSET {ImageName(i) : i \in 1..MaxEmptyImages}
    /\ words_list = <<>>
    /\ SplitNotRun
    /\ PathsNotRun
    /\ LabelsNotRun

\* words_list = [] ... for line in words: ...
BuildWordsList ==
    /\ pc = "readlines"
    /\ words_list' = FilterWords(words)
    /\ pc' = "shuffle"
    /\ UNCHANGED <<words, empty_images, train_samples, validation_samples,
                   test_samples, train_img_paths, train_labels,
                   validation_img_paths, validation_labels, test_img_paths,
                   test_labels, train_labels_cleaned, characters, max_len,
                   validation_labels_cleaned, test_labels_cleaned>>
    /\ UNCHANGED nonWordsVars

\* np.random.shuffle(words_list)
ShuffleWordsList ==
    /\ pc = "shuffle"
    /\ words_list' \in NpRandomShuffle(words_list)
    /\ pc' = "split"
    /\ UNCHANGED <<words, empty_images, train_samples, validation_samples,
                   test_samples, train_img_paths, train_labels,
                   validation_img_paths, validation_labels, test_img_paths,
                   test_labels, train_labels_cleaned, characters, max_len,
                   validation_labels_cleaned, test_labels_cleaned>>
    /\ UNCHANGED nonWordsVars

\* the splitting cell and its assert
SplitDataset ==
    /\ pc = "split"
    /\ LET r == SplitSamples(words_list)
       IN  /\ train_samples' = r[1]
           /\ validation_samples' = r[2]
           /\ test_samples' = r[3]
           /\ pc' = IF Len(words_list) = Len(r[1]) + Len(r[2]) + Len(r[3])
                      THEN "paths" ELSE "AssertionError"
    /\ UNCHANGED <<words, empty_images, words_list, train_img_paths, train_labels,
                   validation_img_paths, validation_labels, test_img_paths,
                   test_labels, train_labels_cleaned, characters, max_len,
                   validation_labels_cleaned, test_labels_cleaned>>
    /\ UNCHANGED nonWordsVars

\* the three get_image_paths_and_labels calls
PrepareImagePaths ==
    /\ pc = "paths"
    /\ LET tr == get_image_paths_and_labels(train_samples, empty_images)
           va == get_image_paths_and_labels(validation_samples, empty_images)
           te == get_image_paths_and_labels(test_samples, empty_images)
       IN  /\ train_img_paths' = tr[1] /\ train_labels' = tr[2]
           /\ validation_img_paths' = va[1] /\ validation_labels' = va[2]
           /\ test_img_paths' = te[1] /\ test_labels' = te[2]
    /\ pc' = "labels"
    /\ UNCHANGED <<words, empty_images, words_list, train_samples,
                   validation_samples, test_samples, train_labels_cleaned,
                   characters, max_len, validation_labels_cleaned,
                   test_labels_cleaned>>
    /\ UNCHANGED nonWordsVars

\* the label preparation cell
PrepareTrainLabels ==
    /\ pc = "labels"
    /\ LET r == PrepareLabels(train_labels, << <<>>, {}, 0 >>)
       IN  /\ train_labels_cleaned' = r[1]
           /\ characters' = SortedChars(r[2])
           /\ max_len' = r[3]
    /\ pc' = "clean"
    /\ UNCHANGED <<words, empty_images, words_list, train_samples,
                   validation_samples, test_samples, train_img_paths, train_labels,
                   validation_img_paths, validation_labels, test_img_paths,
                   test_labels, validation_labels_cleaned, test_labels_cleaned>>
    /\ UNCHANGED nonWordsVars

\* validation_labels_cleaned, test_labels_cleaned = clean_labels(...)
CleanOtherLabels ==
    /\ pc = "clean"
    /\ validation_labels_cleaned' = clean_labels(validation_labels)
    /\ test_labels_cleaned' = clean_labels(test_labels)
    /\ pc' = "words_done"
    /\ UNCHANGED <<words, empty_images, words_list, train_samples,
                   validation_samples, test_samples, train_img_paths, train_labels,
                   validation_img_paths, validation_labels, test_img_paths,
                   test_labels, train_labels_cleaned, characters, max_len>>
    /\ UNCHANGED nonWordsVars

NextWords ==
    \/ BuildWordsList
    \/ ShuffleWordsList
    \/ SplitDataset
    \/ PrepareImagePaths
    \/ PrepareTrainLabels
    \/ CleanOtherLabels

SpecWords == InitWords /\ [][NextWords]_vars

(***************************************************************************)
(* Statements about the handwriting cells                                  *)
(***************************************************************************)
SplitDone == pc \in {"paths", "labels", "clean", "words_done"}

\* the positions of the spaces of a line
Spaces(line) == {i \in 1..Len(line) : line[i] = " "}

\* the text between the first and the second space (or the end) of a line
SecondField(line) ==
    LET first == CHOOSE i \in Spaces(line) : \A j \in Spaces(line) : i <= j
        later == {i \in Spaces(line) : i > first} \cup {Len(line) + 1}
        second == CHOOSE i \in later : \A j \in later : i <= j
    IN  SubSeq(line, first + 1, second - 1)

\* the text after the last space of a line (the whole line without one)
LastField(line) ==
    LET from == CHOOSE i \in Spaces(line) \cup {0} :
                    \A j \in Spaces(line) : j <= i
    IN  SubSeq(line, from + 1, Len(line))

IsMetadata(line) == Head(line) = "#"

IsErrored(line) == SecondField(line) = <<"e", "r", "r">>

IsEntry(line) == ~IsMetadata(line) /\ ~IsErrored(line)

\* number of positions of s holding e
Count(s, e) == Cardinality({i \in 1..Len(s) : s[i] = e})

(***************************************************************************)
(* C1: train_samples, validation_samples and test_samples are contiguous,  *)
(* pairwise disjoint slices of the shuffled words_list whose concatenation *)
(* in that order is words_list itself, so the lengths add up and the       *)
(* assertion never fails.                                                  *)
(***************************************************************************)
C1_SplitIsPartition ==
    /\ pc # "AssertionError"
    /\ SplitDone =>
          /\ train_samples \o validation_samples \o test_samples = words_list
          /\ Len(words_list) = Len(train_samples) + Len(validation_samples)
                                  + Len(test_samples)
          /\ Range(train_samples) \cap Range(validation_samples) = {}
          /\ Range(train_samples) \cap Range(test_samples) = {}
          /\ Range(validation_samples) \cap Range(test_samples) = {}

C1_Witness ==
    /\ pc = "paths"
    /\ Len(words_list) = 21
    /\ words_list # FilterWords(words)
    /\ validation_samples # <<>>
    /\ test_samples[Len(test_samples)] = words_list[21]

(***************************************************************************)
(* C2: for N entries, train has floor(0.9*N) entries, validation has       *)
(* floor(half of the remaining N - floor(0.9*N)) entries and test has the  *)
(* rest, so validation and test sizes differ by at most one and test is    *)
(* never smaller than validation.                                          *)
(***************************************************************************)
C2_NinetyFiveFive ==
    SplitDone =>
        LET N == Len(words_list)
            nTrain == (9 * N) \div 10
            nVal == (N - nTrain) \div 2
        IN  /\ Len(train_samples) = nTrain
            /\ Len(validation_samples) = nVal
            /\ Len(test_samples) = N - nTrain - nVal
            /\ Len(test_samples) - Len(validation_samples) \in {0, 1}

C2_Witness ==
    /\ SplitDone
    /\ Len(words_list) = 20
    /\ Len(train_samples) = 18
    /\ Len(validation_samples) = 1
    /\ Len(test_samples) = 1

(***************************************************************************)
(* C4: before shuffling, words_list holds, in file order, exactly the      *)
(* lines of words.txt that do not start with '#' and whose second          *)
(* space-separated field is not 'err'; no metadata line and no errored     *)
(* entry is ever kept, and no other line is dropped.                       *)
(***************************************************************************)
C4_WordsListFilter ==
    /\ pc = "shuffle" => words_list = SelectSeq(words, IsEntry)
    /\ pc \notin {"readlines"} =>
          /\ \A i \in 1..Len(words_list) : IsEntry(words_list[i])
          /\ \A i \in 1..Len(words) :
                Count(words_list, words[i]) =
                    IF IsEntry(words[i]) THEN Count(words, words[i]) ELSE 0

C4_Witness ==
    /\ pc = "shuffle"
    /\ \E i \in 1..Len(words) : IsMetadata(words[i])
    /\ \E i \in 1..Len(words) : ~IsMetadata(words[i]) /\ IsErrored(words[i])
    /\ \E i \in 1..Len(words_list) : LastField(words_list[i]) = <<"#", "\n">>
    /\ \E i \in 1..Len(words_list) :
          LastField(words_list[i]) = <<"e", "r", "r", "\n">>
    /\ Len(words_list) > MaxPermLen

(***************************************************************************)
(* C5: after the label-preparation cell, characters is the sorted,         *)
(* duplicate-free list of exactly the characters occurring in the cleaned  *)
(* training labels, max_len is the maximum length of a cleaned training    *)
(* label, and train_labels_cleaned[i] is the last space-separated field of *)
(* train_labels[i] for every i.                                            *)
(***************************************************************************)
C5_Vocabulary ==
    pc \in {"clean", "words_done"} =>
        /\ Len(train_labels_cleaned) = Len(train_labels)
        /\ \A i \in 1..Len(train_labels) :
              train_labels_cleaned[i] = LastField(train_labels[i])
        /\ \A i \in 1..(Len(characters) - 1) :
              Ord(characters[i]) < Ord(characters[i + 1])
        /\ Range(characters) =
              UNION {Range(train_labels_cleaned[i]) :
                        i \in 1..Len(train_labels_cleaned)}
        /\ \A i \in 1..Len(train_labels_cleaned) :
              Len(train_labels_cleaned[i]) <= max_len
        /\ IF train_labels_cleaned = <<>> THEN max_len = 0
           ELSE \E i \in 1..Len(train_labels_cleaned) :
                   Len(train_labels_cleaned[i]) = max_len

\* the labels "cat" and "dog" alone give the vocabulary {a, c, d, g, o, t}
C5_Witness ==
    /\ pc = "words_done"
    /\ Range(train_labels_cleaned) = {<<"c", "a", "t">>, <<"d", "o", "g">>}
    /\ characters = <<"a", "c", "d", "g", "o", "t">>
    /\ max_len = 3

(***************************************************************************)
(* Handwriting tutorial: distortion_free_resize(image, img_size)           *)
(***************************************************************************)
image_width == 128

image_height == 32

\* images of 1..MaxImageSide pixels a side are resized to targets of
\* 1..MaxTargetSide a side and to (image_width, image_height)
MaxImageSide == 6

MaxTargetSide == 4

TargetSizes ==
    ((1..MaxTargetSide) \X (1..MaxTargetSide)) \cup {<<image_width, image_height>>}

\* tf.image.resize(image, size=(h, w), preserve_aspect_ratio=True): both sides
\* are scaled by min(h / height, w / width) and rounded
TfImageResize(t, h, w) ==
    IF h * t[2] <= w * t[1]
    THEN <<RoundHalfEven(h * t[1], t[1]), RoundHalfEven(h * t[2], t[1]), t[3]>>
    ELSE <<RoundHalfEven(w * t[1], t[2]), RoundHalfEven(w * t[2], t[2]), t[3]>>

\* a padding split that drops the odd pixel
PadSplitNoExtra(pad) == <<pad \div 2, pad \div 2>>

\* the `if pad % 2 != 0` blocks: <<top, bottom>> or <<left, right>>
PadSplit(pad) ==
    IF pad % 2 # 0
    THEN <<(pad \div 2) + 1, pad \div 2>>
    ELSE <<pad \div 2, pad \div 2>>

\* tf.pad(image, paddings)
TfPad(t, p) ==
    [d \in 1..Len(t) |-> p[d][1] + t[d] + p[d][2]]

\* tf.transpose(image, perm=[1, 0, 2])
TfTranspose(t) == <<t[2], t[1], t[3]>>

\* tf.image.flip_left_right keeps the shape
FlipLeftRight(t) == t

InitResize ==
    /\ pc = "resize"
    /\ ResizeOnly
    /\ \E ih \in 1..MaxImageSide, iw \in 1..MaxImageSide : image = <<ih, iw, 1>>
    /\ resize_img_size \in TargetSizes
    /\ pad_height = 0
    /\ pad_width = 0
    /\ paddings = NoPadding

\* image = tf.image.resize(...)
ResizeImage ==
    /\ pc = "resize"
    /\ LET r == TfImageResize(image, resize_img_size[2], resize_img_size[1])
       IN  /\ r[1] > 0 /\ r[2] > 0
           /\ image' = r
    /\ pc' = "pad_amount"
    /\ UNCHANGED <<resize_img_size, pad_height, pad_width, paddings>>
    /\ UNCHANGED nonResizeVars

\* a side rounded to 0: tf.image.resize raises
ResizeRaises ==
    /\ pc = "resize"
    /\ LET r == TfImageResize(image, resize_img_size[2], resize_img_size[1])
       IN  r[1] = 0 \/ r[2] = 0
    /\ pc' = "InvalidArgumentError"
    /\ UNCHANGED <<image, resize_img_size, pad_height, pad_width, paddings>>
    /\ UNCHANGED nonResizeVars

\* pad_height, pad_width and the four pad_* amounts
ComputePadding ==
    /\ pc = "pad_amount"
    /\ pad_height' = resize_img_size[2] - image[1]
    /\ pad_width' = resize_img_size[1] - image[2]
    /\ paddings' = <<PadSplit(pad_height'), PadSplit(pad_width'), <<0, 0>> >>
    /\ pc' = "tf_pad"
    /\ UNCHANGED <<image, resize_img_size>>
    /\ UNCHANGED nonResizeVars

\* image = tf.pad(image, paddings=[...])
PadImage ==
    /\ pc = "tf_pad"
    /\ image' = TfPad(image, paddings)
    /\ pc' = "transpose"
    /\ UNCHANGED <<resize_img_size, pad_height, pad_width, paddings>>
    /\ UNCHANGED nonResizeVars

\* image = tf.transpose(...); image = tf.image.flip_left_right(image)
TransposeAndFlip ==
    /\ pc = "transpose"
    /\ image' = FlipLeftRight(TfTranspose(image))
    /\ pc' = "resize_done"
    /\ UNCHANGED <<resize_img_size, pad_height, pad_width, paddings>>
    /\ UNCHANGED nonResizeVars

NextResize ==
    \/ ResizeImage
    \/ ResizeRaises
    \/ ComputePadding
    \/ PadImage
    \/ TransposeAndFlip

SpecResize == InitResize /\ [][NextResize]_vars

(***************************************************************************)
(* C6: for every resized size (h', w') with h' <= h and w' <= w the        *)
(* padding satisfies top + bottom = h - h' and left + right = w - w', with *)
(* top - bottom in {0, 1} and left - right in {0, 1}; the padded image is  *)
(* exactly h by w, nothing is cropped (no negative padding), and the       *)
(* returned (transposed) image has shape (w, h, channels).                 *)
(***************************************************************************)
C6_PaddingCentred ==
    LET w == resize_img_size[1]
        h == resize_img_size[2]
        top == paddings[1][1]
        bottom == paddings[1][2]
        left == paddings[2][1]
        right == paddings[2][2]
    IN  /\ pc = "pad_amount" => image[1] <= h /\ image[2] <= w
        /\ pc = "tf_pad" =>
              /\ top + bottom = h - image[1]
              /\ left + right = w - image[2]
        /\ pc \in {"tf_pad", "transpose", "resize_done"} =>
              /\ top + bottom = pad_height
              /\ left + right = pad_width
              /\ top - bottom \in {0, 1}
              /\ left - right \in {0, 1}
              /\ top - bottom = pad_height % 2
              /\ left - right = pad_width % 2
              /\ bottom >= 0 /\ right >= 0
              /\ paddings[3] = <<0, 0>>
        /\ pc = "transpose" => image = <<h, w, 1>>
        /\ pc = "resize_done" => image = <<w, h, 1>>

C6_Witness ==
    /\ pc = "resize_done"
    /\ resize_img_size = <<image_width, image_height>>
    /\ pad_width % 2 = 1
    /\ paddings[2][1] = paddings[2][2] + 1
    /\ image = <<image_width, image_height, 1>>

(***************************************************************************)
(* BASNet tutorial: the model.  Tensors are records of a shape and of the  *)
(* layers the tensor went through (postfix order: the term of an operand   *)
(* precedes the layer applied to it).                                      *)
(***************************************************************************)
IMAGE_SIZE == 288

OUT_CLASSES == 1

\* side lengths 1..MaxBasnetSide are tried for basnet besides IMAGE_SIZE
MaxBasnetSide == 33

BasnetSides == (1..MaxBasnetSide) \cup {IMAGE_SIZE}

MaxOutClasses == 2

OutClassesSet == 1..Max(MaxOutClasses, OUT_CLASSES)

Tensor3(shape, term) == [shape |-> shape, term |-> term]

\* a layer with one input
Through(t, layer, shape) == Tensor3(shape, Append(t.term, layer))

\* layers.Input(input_shape)
LayersInput(shape) == Tensor3(shape, <<"Input">>)

\* layers.Conv2D(filters, (3, 3), padding="same") followed by
\* BatchNormalization and Activation("relu")
convolution_block(t, filters) ==
    LET a == Through(t, "Conv2D", Conv2D(t.shape, filters, 1))
        b == Through(a, "BatchNormalization", BatchNormalization(a.shape))
    IN  Through(b, "relu", Activation(b.shape))

\* layers.MaxPool2D(pool_size=(2, 2), strides=(2, 2)), padding "valid"
MaxPool2D(t) ==
    Through(t, "MaxPool2D", <<t.shape[1] \div 2, t.shape[2] \div 2, t.shape[3]>>)

\* MaxPool2D raises when a side is smaller than the pool
PoolRaises(t) == t.shape[1] < 2 \/ t.shape[2] < 2

\* layers.Resizing(height, width)
Resizing(t, height, width) == Through(t, "Resizing", <<height, width, t.shape[3]>>)

\* layers.concatenate([a, b], axis=-1) raises unless heights and widths agree
ConcatRaises(a, b) == a.shape[1] # b.shape[1] \/ a.shape[2] # b.shape[2]

concatenate(a, b) ==
    Tensor3(<<a.shape[1], a.shape[2], a.shape[3] + b.shape[3]>>,
            a.term \o b.term \o <<"concatenate">>)

\* an Add that adds the refinement output to itself
LayersAddSecondOnly(a, b) ==
    Tensor3(Add(b.shape, b.shape), b.term \o b.term \o <<"Add">>)

\* layers.Add()([a, b])
LayersAdd(a, b) ==
    Tensor3(Add(a.shape, b.shape), a.term \o b.term \o <<"Add">>)

\* segmentation_head(x_input, out_classes, final_size); final_size = <<>> is None
segmentation_head(t, classes, final_size) ==
    LET a == Through(t, "Conv2D", Conv2D(t.shape, classes, 1))
    IN  IF final_size # <<>>
          THEN Resizing(a, final_size[1], final_size[2])
          ELSE a

KerasModel(in, out) == [input |-> in, output |-> out]

(***************************************************************************)
(* basnet_predict(input_shape, out_classes): the sides of the six encoder  *)
(* stages (ResNet-34 stacks of strides 1, 2, 2, 2, then two MaxPool2D      *)
(* stages), the decoder's concatenations and the seven side outputs        *)
(***************************************************************************)
PredictSides(n) ==
    LET e0 == n
        e1 == CeilDiv(e0, 2)
        e2 == CeilDiv(e1, 2)
        e3 == CeilDiv(e2, 2)
        e4 == e3 \div 2
        e5 == e4 \div 2
    IN  <<e0, e1, e2, e3, e4, e5>>

PredictRaises(shape) ==
    LET hs == PredictSides(shape[1])
        ws == PredictSides(shape[2])
    IN  \/ hs[4] < 2 \/ ws[4] < 2 \/ hs[5] < 2 \/ ws[5] < 2
        \/ \E i \in 1..5 : 2 * hs[i + 1] # hs[i] \/ 2 * ws[i + 1] # ws[i]

DecoderBlockNames ==
    <<"decoder_blocks[0]", "decoder_blocks[1]", "decoder_blocks[2]",
      "decoder_blocks[3]", "decoder_blocks[4]", "decoder_blocks[5]",
      "decoder_blocks[6]">>

basnet_predict(shape, classes) ==
    LET hs == PredictSides(shape[1])
        ws == PredictSides(shape[2])
        xin == LayersInput(shape)
        decoder_block(k) ==
            Through(xin, DecoderBlockNames[k],
                    <<hs[Min(k, 6)], ws[Min(k, 6)], 64 * 8>>)
    IN  KerasModel(xin,
                   [k \in 1..7 |->
                       segmentation_head(decoder_block(k), classes,
                                         <<shape[1], shape[2]>>)])

(***************************************************************************)
(* basnet(input_shape, out_classes): basnet_predict, then basnet_rrm one   *)
(* action per stage, then the combined model                               *)
(***************************************************************************)
RrmNumStages == 4

RrmFilters == 64

InitRrm ==
    /\ pc = "basnet_predict"
    /\ RrmOnly
    /\ input_shape \in {<<h, w, 3>> : h \in BasnetSides, w \in BasnetSides}
    /\ out_classes \in OutClassesSet
    /\ predict_model = NoModel
    /\ x_input = NoTensor
    /\ rrm_x = NoTensor
    /\ encoder_blocks = <<>>
    /\ stage = 0
    /\ refine_model = NoModel
    /\ basnet_model = NoModel

BasnetPredict ==
    /\ pc = "basnet_predict"
    /\ IF PredictRaises(input_shape)
         THEN pc' = "ValueError" /\ UNCHANGED predict_model
         ELSE /\ predict_model' = basnet_predict(input_shape, out_classes)
              /\ pc' = "rrm_input"
    /\ UNCHANGED <<input_shape, out_classes, x_input, rrm_x, encoder_blocks,
                   stage, refine_model, basnet_model>>
    /\ UNCHANGED nonRrmVars

\* x_input = base_model.output[0]; x = Conv2D(filters, (3, 3), padding="same")
RrmInput ==
    /\ pc = "rrm_input"
    /\ x_input' = predict_model.output[1]
    /\ rrm_x' = Through(x_input', "Conv2D", Conv2D(x_input'.shape, RrmFilters, 1))
    /\ encoder_blocks' = <<>>
    /\ stage' = 1
    /\ pc' = "rrm_encoder"
    /\ UNCHANGED <<input_shape, out_classes, predict_model, refine_model,
                   basnet_model>>
    /\ UNCHANGED nonRrmVars

\* body of `for _ in range(num_stages)`
RrmEncoderStage ==
    /\ pc = "rrm_encoder"
    /\ LET c == convolution_block(rrm_x, RrmFilters)
       IN  /\ encoder_blocks' = Append(encoder_blocks, c)
           /\ IF PoolRaises(c)
                THEN rrm_x' = c /\ stage' = stage /\ pc' = "ValueError"
                ELSE /\ rrm_x' = MaxPool2D(c)
                     /\ IF stage < RrmNumStages
                          THEN stage' = stage + 1 /\ pc' = "rrm_encoder"
                          ELSE stage' = 0 /\ pc' = "rrm_bridge"
    /\ UNCHANGED <<input_shape, out_classes, predict_model, x_input,
                   refine_model, basnet_model>>
    /\ UNCHANGED nonRrmVars

RrmBridge ==
    /\ pc = "rrm_bridge"
    /\ rrm_x' = convolution_block(rrm_x, RrmFilters)
    /\ stage' = RrmNumStages
    /\ pc' = "rrm_decoder"
    /\ UNCHANGED <<input_shape, out_classes, predict_model, x_input,
                   encoder_blocks, refine_model, basnet_model>>
    /\ UNCHANGED nonRrmVars

\* body of `for i in reversed(range(num_stages))`, i = stage - 1
RrmDecoderStage ==
    /\ pc = "rrm_decoder"
    /\ LET r == Resizing(rrm_x, rrm_x.shape[1] * 2, rrm_x.shape[2] * 2)
       IN  IF ConcatRaises(encoder_blocks[stage], r)
             THEN rrm_x' = r /\ stage' = stage /\ pc' = "ValueError"
             ELSE /\ rrm_x' = convolution_block(
                                  concatenate(encoder_blocks[stage], r),
                                  RrmFilters)
                  /\ IF stage > 1
                       THEN stage' = stage - 1 /\ pc' = "rrm_decoder"
                       ELSE stage' = 0 /\ pc' = "rrm_head"
    /\ UNCHANGED <<input_shape, out_classes, predict_model, x_input,
                   encoder_blocks, refine_model, basnet_model>>
    /\ UNCHANGED nonRrmVars

\* x = segmentation_head(x, out_classes, None); x = Add()([x_input, x]);
\* return Model(inputs=[base_model.input], outputs=[x])
RrmHead ==
    /\ pc = "rrm_head"
    /\ rrm_x' = LayersAdd(x_input, segmentation_head(rrm_x, out_classes, <<>>))
    /\ refine_model' = KerasModel(predict_model.input, <<rrm_x'>>)
    /\ pc' = "basnet_combine"
    /\ UNCHANGED <<input_shape, out_classes, predict_model, x_input,
                   encoder_blocks, stage, basnet_model>>
    /\ UNCHANGED nonRrmVars

\* output = [refine_model.output] + predict_model.output, each through sigmoid
BasnetCombine ==
    /\ pc = "basnet_combine"
    /\ LET output == refine_model.output \o predict_model.output
       IN  basnet_model' =
               KerasModel(predict_model.input,
                          [k \in 1..Len(output) |->
                              Through(output[k], "sigmoid",
                                      Activation(output[k].shape))])
    /\ pc' = "basnet_done"
    /\ UNCHANGED <<input_shape, out_classes, predict_model, x_input, rrm_x,
                   encoder_blocks, stage, refine_model>>
    /\ UNCHANGED nonRrmVars

NextRrm ==
    \/ BasnetPredict
    \/ RrmInput
    \/ RrmEncoderStage
    \/ RrmBridge
    \/ RrmDecoderStage
    \/ RrmHead
    \/ BasnetCombine

SpecRrm == InitRrm /\ [][NextRrm]_vars

\* 2^k for the stage numbers used here
Pow2(k) == IF k = 0 THEN 1 ELSE IF k = 1 THEN 2 ELSE IF k = 2 THEN 4 ELSE 8

\* number of occurrences of a layer in a term
Occurrences(term, layer) == Cardinality({i \in 1..Len(term) : term[i] = layer})

\* C11: whenever basnet_rrm returns, its single output is Add(coarse,
\* residual): coarse is the first output of the prediction model that
\* basnet_rrm took as x_input, residual is computed from coarse by a first
\* Conv2D, four encoder stages (each halving the sides), a bridge, four
\* decoder stages and a segmentation head without resizing; the refined map
\* has the coarse map's height, width and channel count, and the returned
\* model's input is the prediction model's input.
C11_RefinedIsCoarsePlusResidual ==
    pc \in {"basnet_combine", "basnet_done"} =>
        LET coarse == predict_model.output[1]
            refined == refine_model.output[1]
            residual == SubSeq(refined.term, Len(coarse.term) + 1,
                               Len(refined.term) - 1)
        IN  /\ Len(refine_model.output) = 1
            /\ x_input = coarse
            /\ refined.term = coarse.term \o residual \o <<"Add">>
            /\ Occurrences(refined.term, "Add") = 1
            /\ SubSeq(residual, 1, Len(coarse.term) + 1)
                   = coarse.term \o <<"Conv2D">>
            /\ residual[Len(residual)] = "Conv2D"
            /\ Len(encoder_blocks) = 4
            /\ \A k \in 1..4 :
                   encoder_blocks[k].shape =
                       <<coarse.shape[1] \div Pow2(k - 1),
                         coarse.shape[2] \div Pow2(k - 1), 64>>
            /\ coarse.shape = <<input_shape[1], input_shape[2], out_classes>>
            /\ refined.shape = coarse.shape
            /\ refine_model.input = predict_model.input

C11_Witness ==
    /\ pc = "basnet_done"
    /\ input_shape = <<IMAGE_SIZE, IMAGE_SIZE, 3>>
    /\ out_classes = OUT_CLASSES
    /\ refine_model.output[1].shape = <<IMAGE_SIZE, IMAGE_SIZE, OUT_CLASSES>>
    /\ basnet_model.output[1].term
           = Append(refine_model.output[1].term, "sigmoid")

(***************************************************************************)
(* Exact arithmetic for the losses.  self.smooth = 1.0e-9 is kept as a     *)
(* symbol s: a polynomial c1 + c2*s + c3*s^2 + ... is the sequence of its  *)
(* integer coefficients, a number is a quotient n / d of two polynomials   *)
(* with d > 0.  With s = 1.0e-9 the sign of a polynomial whose coefficients *)
(* add up to less than SmoothInverse in absolute value is the sign of its  *)
(* first non-zero coefficient.                                             *)
(***************************************************************************)
SmoothInverse == 1000000000

PCoef(p, i) == IF i >= 1 /\ i <= Len(p) THEN p[i] ELSE 0

PAdd(p, q) == [i \in 1..Max(Len(p), Len(q)) |-> PCoef(p, i) + PCoef(q, i)]

PNeg(p) == [i \in 1..Len(p) |-> 0 - p[i]]

PMul(p, q) ==
    [k \in 1..(Len(p) + Len(q) - 1) |->
        LET S[i \in 0..Len(p)] ==
                IF i = 0 THEN 0 ELSE S[i - 1] + p[i] * PCoef(q, k - i + 1)
        IN  S[Len(p)]]

Abs(k) == IF k < 0 THEN 0 - k ELSE k

PNorm(p) ==
    LET S[i \in 0..Len(p)] == IF i = 0 THEN 0 ELSE S[i - 1] + Abs(p[i])
    IN  S[Len(p)]

PSign(p) ==
    LET nz == {i \in 1..Len(p) : p[i] # 0}
    IN  IF nz = {} THEN 0
        ELSE LET i == CHOOSE j \in nz : \A k \in nz : j <= k
             IN  IF p[i] > 0 THEN 1 ELSE 0 - 1

Q(n, d) == [n |-> n, d |-> d]

QInt(k) == Q(<<k>>, <<1>>)

\* k + self.smooth
QPlusSmooth(k) == Q(<<k, 1>>, <<1>>)

QAdd(a, b) == Q(PAdd(PMul(a.n, b.d), PMul(b.n, a.d)), PMul(a.d, b.d))

QSub(a, b) == Q(PAdd(PMul(a.n, b.d), PNeg(PMul(b.n, a.d))), PMul(a.d, b.d))

\* a / b for b > 0
QDiv(a, b) == Q(PMul(a.n, b.d), PMul(a.d, b.n))

\* -1, 0, 1 as a < b, a = b, a > b
QCmp(a, b) == PSign(PAdd(PMul(a.n, b.d), PNeg(PMul(b.n, a.d))))

RECURSIVE QSum(_)
QSum(seq) == IF seq = <<>> THEN QInt(0) ELSE QAdd(seq[1], QSum(Tail(seq)))

\* backend.mean(values, axis=0)
BackendMean(values) == QDiv(QSum(values), QInt(Len(values)))

(***************************************************************************)
(* BASNet tutorial: BasnetLoss.  A mask is a function from its pixels to   *)
(* {0, 1}; cross entropy and SSIM are library functions, modelled by the   *)
(* call made and a value chosen from a small set.                          *)
(***************************************************************************)
\* (height, width, channels) of the masks tried
MaskShape == <<1, 2, 1>>

Pixels == 1..(MaskShape[1] * MaskShape[2] * MaskShape[3])

Masks == [Pixels -> {0, 1}]

MaxLossBatch == 2

MaskBatches == UNION {[1..b -> Masks] : b \in 1..MaxLossBatch}

\* a mask read as a binary number
MaskCode(mask) ==
    LET S[i \in 0..Cardinality(Pixels)] ==
            IF i = 0 THEN 0 ELSE 2 * S[i - 1] + mask[i]
    IN  S[Cardinality(Pixels)]

\* the loss does not depend on the order of the samples of a batch: batches
\* are tried up to that order
SamplesOrdered(t, pr) ==
    \A b \in 1..(Len(t) - 1) :
        MaskCode(t[b]) * Cardinality(Masks) + MaskCode(pr[b])
            <= MaskCode(t[b + 1]) * Cardinality(Masks) + MaskCode(pr[b + 1])

\* values keras.losses.BinaryCrossentropy()(y_true, y_pred) may return
BceValues == {0, 1}

\* values tf.image.ssim(y_true, y_pred, max_val=1) may return for a sample
SsimValues == {0 - 1, 1}

LibCall(fn, a, b, max_val) ==
    [fn |-> fn, y_true |-> a, y_pred |-> b, max_val |-> max_val]

\* backend.sum(t, axis=[1, 2, 3]) for one sample
BackendSum(t) ==
    LET S[i \in 0..Cardinality(Pixels)] == IF i = 0 THEN 0 ELSE S[i - 1] + t[i]
    IN  S[Cardinality(Pixels)]

\* backend.abs(y_true * y_pred), one sample
AbsProduct(a, b) == [i \in Pixels |-> Abs(a[i] * b[i])]

Intersection(t, pr) == [b \in 1..Len(t) |-> BackendSum(AbsProduct(t[b], pr[b]))]

\* a union that forgets to subtract the intersection
UnionNotSubtracted(t, pr, inter) ==
    [b \in 1..Len(t) |-> BackendSum(t[b]) + BackendSum(pr[b])]

\* union = sum(y_true) + sum(y_pred); union = union - intersection
Union(t, pr, inter) ==
    [b \in 1..Len(t) |-> BackendSum(t[b]) + BackendSum(pr[b]) - inter[b]]

\* (intersection + self.smooth) / (union + self.smooth), per sample
IouRatios(inter, un) ==
    [b \in 1..Len(inter) |-> QDiv(QPlusSmooth(inter[b]), QPlusSmooth(un[b]))]

\* backend.mean(1 - ssim_value + self.smooth, axis=0)
SsimLoss(values) ==
    BackendMean([b \in 1..Len(values) |-> QPlusSmooth(1 - values[b])])

\* a sum that leaves the IoU term out
HybridSumWithoutIou(ce, ssim, iou) == QAdd(ce, ssim)

\* cross_entropy_loss + ssim_loss + iou_loss
HybridSum(ce, ssim, iou) == QAdd(QAdd(ce, ssim), iou)

(***************************************************************************)
(* BasnetLoss.call(y_true, y_pred), one action per statement, the          *)
(* statements of calculate_iou included                                    *)
(***************************************************************************)
InitLoss ==
    /\ pc = "cross_entropy"
    /\ LossOnly
    /\ y_true \in MaskBatches
    /\ y_pred \in MaskBatches
    /\ Len(y_true) = Len(y_pred)
    /\ SamplesOrdered(y_true, y_pred)
    /\ cross_entropy_loss = NoValue
    /\ ssim_value = <<>>
    /\ ssim_loss = NoValue
    /\ intersection = <<>>
    /\ union = <<>>
    /\ iou_value = NoValue
    /\ iou_loss = NoValue
    /\ loss = NoValue
    /\ lib_calls = <<>>

\* cross_entropy_loss = self.cross_entropy_loss(y_true, y_pred)
CrossEntropy ==
    /\ pc = "cross_entropy"
    /\ \E v \in BceValues : cross_entropy_loss' = QInt(v)
    /\ lib_calls' = Append(lib_calls,
                           LibCall("BinaryCrossentropy", y_true, y_pred, 0))
    /\ pc' = "ssim_value"
    /\ UNCHANGED <<y_true, y_pred, ssim_value, ssim_loss, intersection, union,
                   iou_value, iou_loss, loss>>
    /\ UNCHANGED nonLossVars

\* ssim_value = self.ssim_value(y_true, y_pred, max_val=1)
SsimValue ==
    /\ pc = "ssim_value"
    /\ ssim_value' \in [1..Len(y_true) -> SsimValues]
    /\ lib_calls' = Append(lib_calls, LibCall("tf.image.ssim", y_true, y_pred, 1))
    /\ pc' = "ssim_loss"
    /\ UNCHANGED <<y_true, y_pred, cross_entropy_loss, ssim_loss, intersection,
                   union, iou_value, iou_loss, loss>>
    /\ UNCHANGED nonLossVars

SsimLossMean ==
    /\ pc = "ssim_loss"
    /\ ssim_loss' = SsimLoss(ssim_value)
    /\ pc' = "iou_intersection"
    /\ UNCHANGED <<y_true, y_pred, cross_entropy_loss, ssim_value, intersection,
                   union, iou_value, iou_loss, loss, lib_calls>>
    /\ UNCHANGED nonLossVars

\* calculate_iou: intersection = backend.sum(backend.abs(y_true * y_pred), ...)
IouIntersection ==
    /\ pc = "iou_intersection"
    /\ intersection' = Intersection(y_true, y_pred)
    /\ pc' = "iou_union"
    /\ UNCHANGED <<y_true, y_pred, cross_entropy_loss, ssim_value, ssim_loss,
                   union, iou_value, iou_loss, loss, lib_calls>>
    /\ UNCHANGED nonLossVars

IouUnion ==
    /\ pc = "iou_union"
    /\ union' = Union(y_true, y_pred, intersection)
    /\ pc' = "iou_mean"
    /\ UNCHANGED <<y_true, y_pred, cross_entropy_loss, ssim_value, ssim_loss,
                   intersection, iou_value, iou_loss, loss, lib_calls>>
    /\ UNCHANGED nonLossVars

\* return backend.mean((intersection + smooth) / (union + smooth), axis=0)
IouMean ==
    /\ pc = "iou_mean"
    /\ iou_value' = BackendMean(IouRatios(intersection, union))
    /\ pc' = "iou_loss"
    /\ UNCHANGED <<y_true, y_pred, cross_entropy_loss, ssim_value, ssim_loss,
                   intersection, union, iou_loss, loss, lib_calls>>
    /\ UNCHANGED nonLossVars

\* iou_loss = 1 - iou_value
IouLoss ==
    /\ pc = "iou_loss"
    /\ iou_loss' = QSub(QInt(1), iou_value)
    /\ pc' = "return_loss"
    /\ UNCHANGED <<y_true, y_pred, cross_entropy_loss, ssim_value, ssim_loss,
                   intersection, union, iou_value, loss, lib_calls>>
    /\ UNCHANGED nonLossVars

ReturnLoss ==
    /\ pc = "return_loss"
    /\ loss' = HybridSum(cross_entropy_loss, ssim_loss, iou_loss)
    /\ pc' = "loss_done"
    /\ UNCHANGED <<y_true, y_pred, cross_entropy_loss, ssim_value, ssim_loss,
                   intersection, union, iou_value, iou_loss, lib_calls>>
    /\ UNCHANGED nonLossVars

NextLoss ==
    \/ CrossEntropy
    \/ SsimValue
    \/ SsimLossMean
    \/ IouIntersection
    \/ IouUnion
    \/ IouMean
    \/ IouLoss
    \/ ReturnLoss

SpecLoss == InitLoss /\ [][NextLoss]_vars

\* the pixels a mask sets
Foreground(mask) == {i \in Pixels : mask[i] = 1}

\* |A and B| and |A or B| of sample b
SetIntersection(b) ==
    Cardinality(Foreground(y_true[b]) \cap Foreground(y_pred[b]))

SetUnion(b) ==
    Cardinality(Foreground(y_true[b]) \cup Foreground(y_pred[b]))

\* (|A and B| + smooth) / (|A or B| + smooth) of sample b
SmoothedIou(b) == Q(<<SetIntersection(b), 1>>, <<SetUnion(b), 1>>)

MeanSmoothedIou ==
    QDiv(QSum([b \in 1..Len(y_true) |-> SmoothedIou(b)]), QInt(Len(y_true)))

\* the coefficients are small enough for the sign rule
SignsExact(q) == PNorm(q.n) + PNorm(q.d) < SmoothInverse

\* C12: the value call returns is cross entropy + SSIM loss + IoU loss with
\* no weight and no other term: the cross entropy is the one library call
\* on (y_true, y_pred), the SSIM loss is the batch mean of
\* 1 - SSIM + smooth for the one tf.image.ssim call on (y_true, y_pred),
\* and the IoU loss is 1 - IoU of the same (y_true, y_pred).
C12_SumOfThreeTerms ==
    pc = "loss_done" =>
        LET batch == Len(y_true)
            ssim_terms == [b \in 1..batch |-> Q(<<1 - ssim_value[b], 1>>, <<1>>)]
        IN  /\ lib_calls =
                  <<LibCall("BinaryCrossentropy", y_true, y_pred, 0),
                    LibCall("tf.image.ssim", y_true, y_pred, 1)>>
            /\ Len(ssim_value) = batch
            /\ QCmp(ssim_loss, QDiv(QSum(ssim_terms), QInt(batch))) = 0
            /\ QCmp(QAdd(iou_loss, MeanSmoothedIou), QInt(1)) = 0
            /\ QCmp(loss, QAdd(cross_entropy_loss, QAdd(ssim_loss, iou_loss))) = 0
            /\ SignsExact(loss)

C12_Witness ==
    /\ pc = "loss_done"
    /\ Len(y_true) = 2
    /\ y_true[2] # y_pred[2]
    /\ cross_entropy_loss = QInt(1)
    /\ ssim_value = <<0 - 1, 1>>
    /\ QCmp(iou_loss, QInt(0)) = 1
    /\ QCmp(loss, QAdd(QInt(2), QPlusSmooth(0))) = 1

\* C14: once calculate_iou has returned, for binary masks the intersection
\* and union of every sample are |A and B| and |A or B|; the per-sample
\* value (intersection + smooth) / (union + smooth) lies in (0, 1], is 1
\* when the two masks are identical (both empty included) and exceeds
\* |A and B| / |A or B| by at most smooth; iou_value is the mean of these
\* values over the batch and lies in (0, 1]; the IoU loss 1 - iou_value is
\* never negative.
C14_IouInUnitInterval ==
    pc \in {"iou_loss", "return_loss", "loss_done"} =>
        /\ \A b \in 1..Len(y_true) :
               LET v == SmoothedIou(b)
                   plain == Q(<<SetIntersection(b)>>, <<SetUnion(b)>>)
               IN  /\ intersection[b] = SetIntersection(b)
                   /\ union[b] = SetUnion(b)
                   /\ QCmp(v, QInt(0)) = 1
                   /\ QCmp(v, QInt(1)) <= 0
                   /\ y_true[b] = y_pred[b] => QCmp(v, QInt(1)) = 0
                   /\ SetUnion(b) > 0 =>
                          /\ QCmp(v, plain) >= 0
                          /\ QCmp(QSub(v, plain), QPlusSmooth(0)) <= 0
        /\ QCmp(iou_value, MeanSmoothedIou) = 0
        /\ QCmp(iou_value, QInt(0)) = 1
        /\ QCmp(iou_value, QInt(1)) <= 0
        /\ SignsExact(iou_value)
        /\ pc \in {"return_loss", "loss_done"} =>
               /\ QCmp(QAdd(iou_loss, iou_value), QInt(1)) = 0
               /\ QCmp(iou_loss, QInt(0)) >= 0

C14_Witness ==
    /\ pc = "return_loss"
    /\ Len(y_true) = 2
    /\ Foreground(y_true[1]) = {} /\ Foreground(y_pred[1]) = {}
    /\ Foreground(y_true[2]) = {1, 2} /\ Foreground(y_pred[2]) = {2}
    /\ union = <<0, 2>>
    /\ QCmp(iou_value, Q(<<3>>, <<4>>)) = 1
    /\ QCmp(iou_loss, Q(<<1>>, <<4>>)) = 0 - 1

(***************************************************************************)
(* Handwriting tutorial: vocabulary, vectorize_label, build_model and      *)
(* CTCLayer.call, run after the label preparation cells                    *)
(***************************************************************************)
batch_size == 64

padding_token == 99

\* StringLookup(vocabulary=list(characters), mask_token=None).get_vocabulary()
GetVocabulary(chars) == <<"[UNK]">> \o chars

\* char_to_num(c): the index in the vocabulary, 0 ([UNK]) for other characters
CharToNum(vocab, c) ==
    IF \E i \in 1..Len(vocab) : vocab[i] = c
      THEN (CHOOSE i \in 1..Len(vocab) : vocab[i] = c) - 1
      ELSE 0

\* vectorize_label(label), for pad_amount = max_len - length >= 0
vectorize_label(label, vocab, maxlen) ==
    LET length == Len(label)
        pad_amount == maxlen - length
    IN  [j \in 1..(length + pad_amount) |->
            IF j <= length THEN CharToNum(vocab, label[j]) ELSE padding_token]

\* prepare_dataset(image_paths, labels): map, then batch(batch_size)
prepare_dataset(labels, vocab, maxlen) ==
    [b \in 1..CeilDiv(Len(labels), batch_size) |->
        [i \in 1..(Min(b * batch_size, Len(labels)) - (b - 1) * batch_size) |->
            vectorize_label(labels[(b - 1) * batch_size + i], vocab, maxlen)]]

\* build_model up to the layer "dense2", as per-sample shapes
BuildDense2(vocab) ==
    LET input_img == Tensor3(<<image_width, image_height, 1>>, <<"image">>)
        conv1 == Through(input_img, "Conv1", Conv2D(input_img.shape, 32, 1))
        pool1 == MaxPool2D(conv1)
        conv2 == Through(pool1, "Conv2", Conv2D(pool1.shape, 64, 1))
        pool2 == MaxPool2D(conv2)
        new_shape == <<image_width \div 4, (image_height \div 4) * 64>>
        reshape == Through(pool2, "reshape", new_shape)
        dense1 == Through(reshape, "dense1", <<new_shape[1], 64>>)
        dropout == Through(dense1, "Dropout", dense1.shape)
        lstm1 == Through(dropout, "Bidirectional(LSTM(128))", <<new_shape[1], 256>>)
        lstm2 == Through(lstm1, "Bidirectional(LSTM(64))", <<new_shape[1], 128>>)
    IN  Through(lstm2, "dense2", <<new_shape[1], Len(vocab) + 2>>)

\* a column of shape (batch_len, 1) filled with value
Column(batch_len, value) == [b \in 1..batch_len |-> <<value>>]

CtcLoss(yt, yp, il, ll) ==
    [fn |-> "ctc_batch_cost", y_true |-> yt, y_pred |-> yp,
     input_length |-> il, label_length |-> ll]

\* char_to_num = StringLookup(...)
BuildVocabulary ==
    /\ pc = "words_done"
    /\ vocabulary' = GetVocabulary(characters)
    /\ pc' = "prepare_dataset"
    /\ UNCHANGED <<hw_train_ds, dense2, ctc_y_true, ctc_y_pred, input_length,
                   label_length, ctc_losses, ctc_output>>
    /\ UNCHANGED nonCtcVars

\* train_ds = prepare_dataset(train_img_paths, train_labels_cleaned)
PrepareDataset ==
    /\ pc = "prepare_dataset"
    /\ hw_train_ds' = prepare_dataset(train_labels_cleaned, vocabulary, max_len)
    /\ pc' = "build_model"
    /\ UNCHANGED <<vocabulary, dense2, ctc_y_true, ctc_y_pred, input_length,
                   label_length, ctc_losses, ctc_output>>
    /\ UNCHANGED nonCtcVars

\* model = build_model()
BuildModel ==
    /\ pc = "build_model"
    /\ dense2' = BuildDense2(vocabulary)
    /\ pc' = "ctc_call"
    /\ UNCHANGED <<vocabulary, hw_train_ds, ctc_y_true, ctc_y_pred,
                   input_length, label_length, ctc_losses, ctc_output>>
    /\ UNCHANGED nonCtcVars

\* CTCLayer.call on one batch of train_ds: batch_len, input_length, label_length
CtcCallLengths ==
    /\ pc = "ctc_call"
    /\ \E k \in 1..Len(hw_train_ds) :
           LET yt == hw_train_ds[k]
               yp == Tensor3(<<Len(yt)>> \o dense2.shape, dense2.term)
               batch_len == Len(yt)
           IN  /\ ctc_y_true' = yt
               /\ ctc_y_pred' = yp
               /\ input_length' = Column(batch_len, yp.shape[2])
               /\ label_length' = Column(batch_len, Len(yt[1]))
    /\ pc' = "ctc_add_loss"
    /\ UNCHANGED <<vocabulary, hw_train_ds, dense2, ctc_losses, ctc_output>>
    /\ UNCHANGED nonCtcVars

\* loss = self.loss_fn(...); self.add_loss(loss); return y_pred
CtcAddLoss ==
    /\ pc = "ctc_add_loss"
    /\ ctc_losses' = Append(ctc_losses,
                            CtcLoss(ctc_y_true, ctc_y_pred, input_length,
                                    label_length))
    /\ ctc_output' = ctc_y_pred
    /\ pc' = "ctc_done"
    /\ UNCHANGED <<vocabulary, hw_train_ds, dense2, ctc_y_true, ctc_y_pred,
                   input_length, label_length>>
    /\ UNCHANGED nonCtcVars

NextCtc ==
    \/ BuildWordsList
    \/ ShuffleWordsList
    \/ SplitDataset
    \/ PrepareImagePaths
    \/ PrepareTrainLabels
    \/ CleanOtherLabels
    \/ BuildVocabulary
    \/ PrepareDataset
    \/ BuildModel
    \/ CtcCallLengths
    \/ CtcAddLoss

SpecCtc == InitWords /\ [][NextCtc]_vars

\* what CTCLayer.call does with its arguments: it returns y_pred unchanged
\* and registers one loss computed from (y_true, y_pred, input_length,
\* label_length), the lengths being batch-by-1 columns holding the number of
\* time steps of y_pred and the padded width of y_true
C13_CallContract ==
    /\ ctc_output = ctc_y_pred
    /\ ctc_output.shape = <<Len(ctc_y_true), image_width \div 4,
                            Len(vocabulary) + 2>>
    /\ Len(ctc_losses) = 1
    /\ ctc_losses[1].y_true = ctc_y_true
    /\ ctc_losses[1].y_pred = ctc_y_pred
    /\ ctc_losses[1].input_length = input_length
    /\ ctc_losses[1].label_length = label_length
    /\ Len(input_length) = Len(ctc_y_true)
    /\ Len(label_length) = Len(ctc_y_true)
    /\ \A b \in 1..Len(ctc_y_true) :
           /\ input_length[b] = <<ctc_y_pred.shape[2]>>
           /\ label_length[b] = <<Len(ctc_y_true[b])>>
           /\ Len(ctc_y_true[b]) = max_len

\* every label position the loss is told to read is a class index of dense2
C13_LabelsInRange ==
    \A b \in 1..Len(ctc_y_true) :
        \A j \in 1..label_length[b][1] :
            ctc_y_true[b][j] \in 0..(dense2.shape[2] - 1)

\* C13: once CTCLayer.call has returned, it has returned y_pred unchanged and
\* registered one loss computed from (y_true, y_pred, input_length,
\* label_length), with input_length the number of time steps of y_pred and
\* label_length the padded width of y_true for every sample; every position
\* of the padded labels, padding_token entries included, is therefore read
\* as a label symbol and is a valid class index, below the dense2 output
\* size len(char_to_num.get_vocabulary()) + 2.
C13_PaddedLabelsAreClassIndices ==
    pc = "ctc_done" => C13_CallContract /\ C13_LabelsInRange

====
